---------------------------- MODULE Spec2Model ----------------------------
(***************************************************************************)
(* Model of daemon/lighting_manager/__init__.py: the lighting effects, the *)
(* LightingController that scales their colours by a brightness level, and *)
(* the LightingManager that drives the attached devices from a worker      *)
(* thread while a caller thread starts, stops and reconfigures it.         *)
(*                                                                         *)
(*   Spec       the LightingManager: caller thread and worker thread       *)
(*   SpecEffect one controller and its effect, driven call by call         *)
(*   SpecScale  _brightness_processor over every channel and brightness    *)
(***************************************************************************)
EXTENDS Integers, Sequences, FiniteSets, TLC

(***************************************************************************)
(* Bounds of the model.                                                    *)
(***************************************************************************)
\* attach_device is unbounded in the code; the model stops attaching here.
MaxDevices == 2
\* setter calls (attach_device, set_controller, set_brightness,
\* set_light_update_msec) the caller thread makes in one behaviour of Spec.
MaxCalls == 2
\* calls of next() counted in one behaviour of SpecEffect.
MaxNextCalls == 6
\* calls of begin_all() counted in one behaviour of SpecEffect.
MaxBeginAll == 14
\* calls of next() counted in one behaviour of SpecSpectrum.
MaxSpectrumNext == 13

(***************************************************************************)
(* Program constants.                                                      *)
(***************************************************************************)
DefaultBrightness == 100
DefaultUpdateMsec == 100
MaxBrightness == 300
InitialPollMsec == 1
TableSize == 360
MaxRotation == 11
ColdAngle == 240
TargetAngle == 120
HotAngle == 0
DefaultHot == 60
DefaultTarget == 30
DefaultCold == 20

\* Python's None where an object's identity is expected (identities are 1, 2, ...)
None == 0
\* no exception raised
NoError == "none"

Min(a, b) == IF a < b THEN a ELSE b

RECURSIVE Pow2(_)
Pow2(n) == IF n = 0 THEN 1 ELSE 2 * Pow2(n - 1)

(***************************************************************************)
(* Python float arithmetic of  int(i / 100 * brightness_level).            *)
(*                                                                         *)
(* i / 100 is an IEEE-754 double q: with 2^e <= i/100 < 2^(e+1) its 53-bit *)
(* significand is M = round(i * 2^(52-e) / 100) = round(N / 25) for        *)
(* N = i * 2^(50-e), so M = (N + d) / 25 where d in -12..12 is the         *)
(* rounding error in units of 1/25 of the last place (25 is odd, so there  *)
(* is no tie).  q * b is then the double nearest to                        *)
(*     i*b/100 + d*b / (25 * 2^(52-e))                                     *)
(* and int() truncates it.  N does not fit TLC's integers; N mod 25 does.  *)
(***************************************************************************)
\* 2^n mod 25; 2^20 = 1 (mod 25)
Pow2Mod25(n) == Pow2(n % 20) % 25

\* floor(log2(n)) for an integer n >= 1
RECURSIVE FloorLog2(_)
FloorLog2(n) == IF n < 2 THEN 0 ELSE 1 + FloorLog2(n \div 2)

\* the binary exponent e of i/100, 2^e <= i/100 < 2^(e+1), for i >= 1
RECURSIVE Div100Exponent(_)
Div100Exponent(i) ==
    IF i >= 200 THEN 1 + Div100Exponent(i \div 2)
    ELSE IF i >= 100 THEN 0
    ELSE Div100Exponent(2 * i) - 1

\* d: 25 * M - N, the signed rounding error of the double i/100
Div100Error(i) ==
    LET r == ((i % 25) * Pow2Mod25(50 - Div100Exponent(i))) % 25
    IN  IF r <= 12 THEN 0 - r ELSE 25 - r

IsPow2(n) == n = Pow2(FloorLog2(n))

\* int(fl(fl(i/100) * b)) for i in 0..255 and b in 1..300
ScaleChannel(i, b) ==
    IF i = 0 THEN 0
    ELSE IF (i * b) % 100 # 0 THEN (i * b) \div 100
    ELSE LET n == (i * b) \div 100
             d == Div100Error(i)
             \* half the gap between n and the double below it is
             \* 2^(m - (52 - e)) units of the exact product's scale
             m == FloorLog2(n) - Div100Exponent(i) - (IF IsPow2(n) THEN 2 ELSE 1)
             below == IF m >= 0 THEN (0 - d) * b > 25 * Pow2(m)
                                ELSE (0 - d) * b * Pow2(0 - m) > 25
         IN  IF d < 0 /\ below THEN n - 1 ELSE n


(***************************************************************************)
(* utils.colours.compass_to_rgb: the hue wheel.  Its source is not part of *)
(* the module modelled here; it is taken as the pure, 360-periodic map     *)
(* from a compass angle to a colour triple with channels in 0..255 (HSV    *)
(* with full saturation and value).                                        *)
(***************************************************************************)
compass_to_rgb(ang) ==
    LET h    == ang % 360
        f    == h % 60
        up   == (f * 255) \div 60
        down == ((60 - f) * 255) \div 60
    IN  CASE h \div 60 = 0 -> <<255, up, 0>>
          [] h \div 60 = 1 -> <<down, 255, 0>>
          [] h \div 60 = 2 -> <<0, 255, up>>
          [] h \div 60 = 3 -> <<0, down, 255>>
          [] h \div 60 = 4 -> <<up, 0, 255>>
          [] OTHER         -> <<255, 0, down>>

(***************************************************************************)
(* The effects.  An effect object is a record of its attributes; every     *)
(* method is an operator from the object to the object after the call      *)
(* (and, for next, the value returned or the exception raised).            *)
(***************************************************************************)
StaticLightingEffect(r, g, b) ==
    [type |-> "static", r |-> r, g |-> g, b |-> b]

AlternatingLightingEffect(even_rgb_matrix, odd_rgb_matrix) ==
    [type |-> "alternating",
     even_r |-> even_rgb_matrix[1], even_g |-> even_rgb_matrix[2],
     even_b |-> even_rgb_matrix[3],
     odd_r |-> odd_rgb_matrix[1], odd_g |-> odd_rgb_matrix[2],
     odd_b |-> odd_rgb_matrix[3],
     odd |-> TRUE]

\* compass_to_rgb_map is the constant table [compass_to_rgb(ang) for ang in
\* range(360)]; it is the operator CompassToRgbMap below, not a field.
RGBSpectrumLightingEffect ==
    [type |-> "rgb_spectrum", num_iters |-> 0]

SpinningRGBSpectrumLightingEffect ==
    [type |-> "spinning_rgb_spectrum", num_iters |-> 0, rotation |-> 0]

TemperatureLightingEffect(sensor_name, hot, target, cold) ==
    [type |-> "temperature", sensor_name |-> sensor_name,
     cur_temp |-> 0, angle |-> 0,
     cold |-> cold, target |-> target, hot |-> hot]

\* index ang of the table built in RGBSpectrumLightingEffect.__init__
CompassToRgbMap(ang) == compass_to_rgb(ang)

\* faulty variant: begin_dev also restarts the alternation
begin_dev_resets_parity(e) ==
    IF e.type \in {"rgb_spectrum", "spinning_rgb_spectrum"}
    THEN [e EXCEPT !.num_iters = 0]
    ELSE IF e.type = "alternating" THEN [e EXCEPT !.odd = TRUE]
    ELSE e

\* LightingEffect.begin_dev, overridden by RGBSpectrumLightingEffect (and
\* inherited by the spinning spectrum)
begin_dev(e) ==
    IF e.type \in {"rgb_spectrum", "spinning_rgb_spectrum"}
    THEN [e EXCEPT !.num_iters = 0]
    ELSE e

\* faulty variant: the rotation wraps modulo 12
SpinningBeginAllMod12(e) ==
    [e EXCEPT !.rotation = (e.rotation + 1) % (MaxRotation + 1)]

\* faulty variant: the rotation never wraps
SpinningBeginAllNoWrap(e) ==
    [e EXCEPT !.rotation = e.rotation + 1]

\* SpinningRGBSpectrumLightingEffect.begin_all
SpinningBeginAll(e) ==
    LET rotation == IF e.rotation > MaxRotation THEN 0 ELSE e.rotation
    IN  [e EXCEPT !.rotation = rotation + 1]

\* The angle TemperatureLightingEffect.begin_all computes for a reading.
\* 120 / (target - cold) and 120 / (hot - target) are exact for the
\* thresholds of the model, and so are the products.
TemperatureAngle(e, cur_temp) ==
    IF cur_temp <= e.cold THEN ColdAngle
    ELSE IF cur_temp < e.target
    THEN ((ColdAngle - TargetAngle) \div (e.target - e.cold))
            * (e.target - cur_temp)
    ELSE IF cur_temp = e.target THEN TargetAngle
    ELSE IF cur_temp > e.hot THEN HotAngle
    ELSE IF cur_temp > e.target
    THEN 120 - ((TargetAngle - HotAngle) \div (e.hot - e.target))
                  * (cur_temp - e.target)
    ELSE e.angle

\* TemperatureLightingEffect.begin_all with the value of
\* sensors_temperatures().get(sensor_name): <<>> for None (no such sensor:
\* the subscript raises TypeError) or <<t>>, t the current temperature of
\* the sensor's first entry.
TemperatureBeginAll(e, reading) ==
    IF reading = <<>>
    THEN [effect |-> e, raised |-> "TypeError"]
    ELSE [effect |-> [e EXCEPT !.cur_temp = reading[1],
                               !.angle = TemperatureAngle(e, reading[1])],
          raised |-> NoError]

\* begin_all of any effect: [effect, raised]
begin_all(e, reading) ==
    CASE e.type = "spinning_rgb_spectrum" ->
            [effect |-> SpinningBeginAll(e), raised |-> NoError]
      [] e.type = "temperature" -> TemperatureBeginAll(e, reading)
      [] OTHER -> [effect |-> e, raised |-> NoError]

\* faulty variant: the triple is returned in the order it was given
StaticNextUnswapped(e) ==
    [effect |-> e, rgb |-> <<e.r, e.g, e.b>>, raised |-> NoError]

StaticNext(e) ==
    [effect |-> e, rgb |-> <<e.g, e.r, e.b>>, raised |-> NoError]

AlternatingNext(e) ==
    IF e.odd
    THEN [effect |-> [e EXCEPT !.odd = FALSE],
          rgb |-> <<e.odd_g, e.odd_r, e.odd_b>>, raised |-> NoError]
    ELSE [effect |-> [e EXCEPT !.odd = TRUE],
          rgb |-> <<e.even_g, e.even_r, e.even_b>>, raised |-> NoError]

\* int(360/12*self.num_iters) indexes a list of TableSize entries
RGBSpectrumNext(e) ==
    LET n   == e.num_iters + 1
        idx == 30 * n
    IN  IF idx < TableSize
        THEN [effect |-> [e EXCEPT !.num_iters = n],
              rgb |-> CompassToRgbMap(idx), raised |-> NoError]
        ELSE [effect |-> [e EXCEPT !.num_iters = n],
              rgb |-> <<0, 0, 0>>, raised |-> "IndexError"]

\* faulty variant: the rotation is left out of the angle
SpinningNextUnrotated(e) ==
    LET n == e.num_iters + 1
    IN  [effect |-> [e EXCEPT !.num_iters = n],
         rgb |-> compass_to_rgb(30 * n), raised |-> NoError]

SpinningNext(e) ==
    LET n == e.num_iters + 1
    IN  [effect |-> [e EXCEPT !.num_iters = n],
         rgb |-> compass_to_rgb(30 * n + 30 * e.rotation), raised |-> NoError]

TemperatureNext(e) ==
    [effect |-> e, rgb |-> compass_to_rgb(e.angle), raised |-> NoError]

\* next() of any effect: [effect, rgb, raised]
next(e) ==
    CASE e.type = "static" -> StaticNext(e)
      [] e.type = "alternating" -> AlternatingNext(e)
      [] e.type = "rgb_spectrum" -> RGBSpectrumNext(e)
      [] e.type = "spinning_rgb_spectrum" -> SpinningNext(e)
      [] OTHER -> TemperatureNext(e)

(***************************************************************************)
(* LightingController                                                      *)
(***************************************************************************)
LightingController(lighting_effect) ==
    [lighting_effect |-> lighting_effect,
     brightness_level |-> DefaultBrightness,
     update_msec |-> DefaultUpdateMsec]

\* LightingController._brightness_processor
BrightnessProcessor(brightness_level, rgb) ==
    IF brightness_level = 0
    THEN <<0, 0, 0>>
    ELSE <<ScaleChannel(rgb[1], brightness_level),
           ScaleChannel(rgb[2], brightness_level),
           ScaleChannel(rgb[3], brightness_level)>>

\* the body of the for loop of LightingController.main, run for the
\* remaining leds of the device: [ctl, data, raised]
RECURSIVE MainLoop(_, _, _)
MainStep(ctl, leds, data, nx) ==
    IF nx.raised # NoError
    THEN [ctl |-> [ctl EXCEPT !.lighting_effect = nx.effect], data |-> data,
          update_msec |-> ctl.update_msec, raised |-> nx.raised]
    ELSE MainLoop([ctl EXCEPT !.lighting_effect = nx.effect], leds - 1,
                  data \o BrightnessProcessor(ctl.brightness_level, nx.rgb))

MainLoop(ctl, leds, data) ==
    IF leds = 0
    THEN [ctl |-> ctl, data |-> data, update_msec |-> ctl.update_msec,
          raised |-> NoError]
    ELSE MainStep(ctl, leds, data, next(ctl.lighting_effect))

\* LightingController.main(device) run without interruption:
\* [ctl, data, update_msec, raised]
ControllerMain(ctl, num_leds) ==
    MainLoop([ctl EXCEPT !.lighting_effect = begin_dev(@)], num_leds, <<>>)

\* lighting_controller_factory(type, *args): a controller, or None for a
\* type it does not know
lighting_controller_factory(type, args) ==
    CASE type = "static" ->
            LightingController(StaticLightingEffect(args[1], args[2], args[3]))
      [] type = "alternating" ->
            LightingController(AlternatingLightingEffect(args[1], args[2]))
      [] type = "rgb_spectrum" ->
            LightingController(RGBSpectrumLightingEffect)
      [] type = "spinning_rgb_spectrum" ->
            LightingController(SpinningRGBSpectrumLightingEffect)
      [] type = "temperature" ->
            LightingController(
                TemperatureLightingEffect(args[1], args[2], args[3], args[4]))
      [] OTHER -> None

(***************************************************************************)
(* State.                                                                  *)
(***************************************************************************)
VARIABLES
    controllers,   \* the LightingController objects that exist, by identity
    _controller,   \* LightingManager._controller: None or a controller's identity
    _devices,      \* LightingManager._devices: the num_leds of each device
    _continue,     \* LightingManager._continue
    _thread,       \* LightingManager._thread: the worker running _main_loop
    caller,        \* the thread that calls the manager's methods
    ghost          \* what the calls so far did (history, read by no action)

vars == <<controllers, _controller, _devices, _continue, _thread, caller, ghost>>

(***************************************************************************)
(* Inputs of the model.                                                    *)
(***************************************************************************)
CtrlIds == {1, 2}

\* sensors psutil.sensors_temperatures() reports
KnownSensors == {"coretemp"}
\* the temperatures a known sensor reports
Readings == {25, 61}

SensorReadings(e) ==
    IF e.type = "temperature" /\ e.sensor_name \in KnownSensors
    THEN {<<t>> : t \in Readings}
    ELSE {<<>>}

\* calls of lighting_controller_factory that return a controller
FactoryCalls ==
    {<<"static", <<255, 0, 0>>>>,
     <<"alternating", <<<<255, 0, 0>>, <<0, 0, 255>>>>>>,
     <<"rgb_spectrum", <<>>>>,
     <<"spinning_rgb_spectrum", <<>>>>,
     <<"temperature", <<"coretemp", DefaultHot, DefaultTarget, DefaultCold>>>>,
     <<"temperature", <<"acpitz", DefaultHot, DefaultTarget, DefaultCold>>>>}

FactoryControllers ==
    {lighting_controller_factory(f[1], f[2]) : f \in FactoryCalls}

\* the controllers that exist: the first made by any factory call, the
\* second a static one of another colour
Pools ==
    {[c \in CtrlIds |->
        IF c = 1 THEN first
        ELSE lighting_controller_factory("static", <<0, 0, 255>>)] :
     first \in FactoryControllers}

\* num_leds of the devices attached
LedCounts == {0, 2}
\* arguments of set_brightness
BrightnessArgs == {0 - 5, 50, 1000}
\* arguments of set_light_update_msec
UpdateMsecArgs == {0, 50}
\* arguments of set_controller: a controller, or an object that is none
SetControllerArgs == CtrlIds \cup {None}

ThreadInit ==
    [pc |-> "initial", dev_idx |-> 0, ctl |-> None, num_leds |-> 0, i |-> 0,
     data |-> <<>>, next_poll_msec |-> 0, raised |-> NoError]

GhostInit ==
    [started |-> FALSE,        \* start() has been called
     stop_returned |-> FALSE,  \* a stop() has returned from its join
     rounds_after_clear |-> 0, \* begin_all calls the worker made with the
                               \* flag cleared, since the last stop() (up to 2)
     sunk |-> FALSE,           \* a device's set_lighting has been called
     brightness_call |-> <<>>, \* <<controller, argument>> of the last
                               \* set_brightness call that found a controller
     controller_call |-> <<>>, \* <<argument, _controller before the call>>
                               \* of the last set_controller call
     round_ctl |-> None,       \* in a round: the controller whose effect's
                               \* begin_all started it
     round_calls |-> 0,        \* in a round: the setter calls made before it
     next_calls |-> 0,         \* calls of next() made so far
     begin_all_calls |-> 0,    \* calls of begin_all() made so far
     op |-> "",                \* the method called last
     ret |-> <<>>]             \* what it returned: the triple of next(), or
                               \* <<[num_leds, brightness_level, data,
                               \*    update_msec]>> of main()

\* LightingManager.__init__(initial_controller)
Init ==
    /\ controllers \in Pools
    /\ _controller \in CtrlIds \cup {None}
    /\ _devices = <<>>
    /\ _continue = FALSE
    /\ _thread = ThreadInit
    /\ caller = [pc |-> "ready", calls |-> 0, raised |-> NoError]
    /\ ghost = GhostInit

(***************************************************************************)
(* The caller thread: the methods of LightingManager.                      *)
(***************************************************************************)
CallerReady == caller.pc = "ready"
MaySet == CallerReady /\ caller.calls < MaxCalls
Called(raised) == [caller EXCEPT !.calls = @ + 1, !.raised = raised]

\* faulty variant: every object passes the test
AnyObjectIsController(c) == TRUE

\* isinstance(controller, LightingController)
IsController(c) == c \in CtrlIds

attach_device(num_leds) ==
    /\ MaySet
    /\ Len(_devices) < MaxDevices
    /\ _devices' = Append(_devices, num_leds)
    /\ caller' = Called(NoError)
    /\ UNCHANGED <<controllers, _controller, _continue, _thread, ghost>>

set_controller(c) ==
    /\ MaySet
    /\ _controller' = IF IsController(c) THEN c ELSE _controller
    /\ caller' = Called(NoError)
    /\ ghost' = [ghost EXCEPT !.controller_call = <<c, _controller>>]
    /\ UNCHANGED <<controllers, _devices, _continue, _thread>>

\* faulty variant: no upper clamp
ClampBrightnessNoUpper(brightness) ==
    IF brightness < 0 THEN 0 ELSE brightness

\* the level set_brightness stores for its argument
ClampBrightness(brightness) ==
    IF brightness < 0 THEN 0
    ELSE IF brightness > MaxBrightness THEN MaxBrightness
    ELSE brightness

set_brightness(brightness) ==
    /\ MaySet
    /\ IF _controller = None
       THEN /\ caller' = Called("AttributeError")
            /\ ghost' = [ghost EXCEPT !.op = "set_brightness", !.ret = <<>>]
            /\ UNCHANGED controllers
       ELSE /\ controllers' = [controllers EXCEPT
                  ![_controller].brightness_level = ClampBrightness(brightness)]
            /\ caller' = Called(NoError)
            /\ ghost' = [ghost EXCEPT
                  !.brightness_call = <<_controller, brightness>>,
                  !.op = "set_brightness", !.ret = <<>>]
    /\ UNCHANGED <<_controller, _devices, _continue, _thread>>

\* faulty variant: zero is stored too
StoresUpdateMsecFromZero(sec) == sec >= 0

\* whether set_light_update_msec stores its argument
StoresUpdateMsec(sec) == sec > 0

set_light_update_msec(sec) ==
    /\ MaySet
    /\ IF ~StoresUpdateMsec(sec)
       THEN /\ caller' = Called(NoError)
            /\ UNCHANGED controllers
       ELSE IF _controller = None
       THEN /\ caller' = Called("AttributeError")
            /\ UNCHANGED controllers
       ELSE /\ controllers' = [controllers EXCEPT
                  ![_controller].update_msec = sec]
            /\ caller' = Called(NoError)
    /\ UNCHANGED <<_controller, _devices, _continue, _thread, ghost>>

\* faulty variant: a finished thread can be started again
ThreadRestartable == _thread.pc \in {"initial", "stopped"}

\* whether Thread.start() starts the thread: it was never started before
ThreadStartable == _thread.pc = "initial"

\* Thread.start() runs _main_loop on a thread never started before and
\* raises RuntimeError on any other
start ==
    /\ CallerReady
    /\ _continue' = TRUE
    /\ IF ThreadStartable
       THEN /\ _thread' = [_thread EXCEPT !.pc = "while",
                                          !.next_poll_msec = InitialPollMsec]
            /\ caller' = [caller EXCEPT !.raised = NoError]
       ELSE /\ caller' = [caller EXCEPT !.raised = "RuntimeError"]
            /\ UNCHANGED _thread
    /\ ghost' = [ghost EXCEPT !.started = TRUE]
    /\ UNCHANGED <<controllers, _controller, _devices>>

\* stop(), up to its call of join
stop ==
    /\ CallerReady
    /\ _continue' = FALSE
    /\ caller' = [caller EXCEPT !.pc = "join", !.raised = NoError]
    /\ ghost' = [ghost EXCEPT !.rounds_after_clear = 0]
    /\ UNCHANGED <<controllers, _controller, _devices, _thread>>

\* faulty variant: join does not wait for the thread
JoinReturnsAtOnce == TRUE

\* whether Thread.join() returns: the thread has finished
JoinReturns == _thread.pc = "stopped"

\* stop(), from its call of join: blocks while the worker runs, raises
\* RuntimeError for a thread never started
join ==
    /\ caller.pc = "join"
    /\ \/ /\ _thread.pc = "initial"
          /\ caller' = [caller EXCEPT !.pc = "ready", !.raised = "RuntimeError"]
          /\ UNCHANGED ghost
       \/ /\ _thread.pc # "initial"
          /\ JoinReturns
          /\ caller' = [caller EXCEPT !.pc = "ready"]
          /\ ghost' = [ghost EXCEPT !.stop_returned = TRUE]
    /\ UNCHANGED <<controllers, _controller, _devices, _continue, _thread>>

(***************************************************************************)
(* The worker thread: LightingManager._main_loop, one action per step that *)
(* reads or writes state the caller thread shares.                         *)
(***************************************************************************)
Raise(exception) ==
    [ThreadInit EXCEPT !.pc = "stopped", !.raised = exception,
                       !.next_poll_msec = _thread.next_poll_msec]

\* faulty variant: the loop never tests the flag
LoopContinuesForever == TRUE

\* the test of  while self._continue
LoopContinues == _continue

main_loop_while ==
    /\ _thread.pc = "while"
    /\ _thread' = IF LoopContinues
                  THEN [_thread EXCEPT !.pc = "begin_all"]
                  ELSE [_thread EXCEPT !.pc = "stopped"]
    /\ UNCHANGED <<controllers, _controller, _devices, _continue, caller, ghost>>

\* self._controller.lighting_effect.begin_all()
main_loop_begin_all ==
    /\ _thread.pc = "begin_all"
    /\ IF _controller = None
       THEN /\ _thread' = Raise("AttributeError")
            /\ UNCHANGED <<controllers, ghost>>
       ELSE \E reading \in SensorReadings(controllers[_controller].lighting_effect) :
              LET r == begin_all(controllers[_controller].lighting_effect, reading)
              IN  /\ controllers' = [controllers EXCEPT
                         ![_controller].lighting_effect = r.effect]
                  /\ _thread' = IF r.raised # NoError
                                THEN Raise(r.raised)
                                ELSE [_thread EXCEPT !.pc = "for", !.dev_idx = 0]
                  /\ ghost' = [ghost EXCEPT
                         !.rounds_after_clear =
                             IF ~_continue THEN Min(@ + 1, 2) ELSE @,
                         !.round_ctl = _controller,
                         !.round_calls = caller.calls]
    /\ UNCHANGED <<_controller, _devices, _continue, caller>>

\* for dev in self._devices: the list iterator reads the list at every step;
\* then self._controller.main(dev) up to its for loop
main_loop_for ==
    /\ _thread.pc = "for"
    /\ IF _thread.dev_idx < Len(_devices)
       THEN IF _controller = None
            THEN /\ _thread' = Raise("AttributeError")
                 /\ UNCHANGED controllers
            ELSE /\ controllers' = [controllers EXCEPT
                        ![_controller].lighting_effect = begin_dev(@)]
                 /\ _thread' = [_thread EXCEPT
                        !.pc = "main", !.dev_idx = @ + 1, !.ctl = _controller,
                        !.num_leds = _devices[_thread.dev_idx + 1],
                        !.i = 0, !.data = <<>>]
       ELSE /\ _thread' = [_thread EXCEPT !.pc = "sleep"]
            /\ UNCHANGED controllers
    /\ UNCHANGED <<_controller, _devices, _continue, caller, ghost>>

\* faulty variant: the loop stops one led short
LedsLeftButOne == _thread.i + 1 < _thread.num_leds

\* for i in range(device.num_leds): whether a pass is left
LedsLeft == _thread.i < _thread.num_leds

\* one pass of the for loop of LightingController.main, or its return
controller_main ==
    /\ _thread.pc = "main"
    /\ IF LedsLeft
       THEN LET ctl == controllers[_thread.ctl]
                nx  == next(ctl.lighting_effect)
            IN  /\ controllers' = [controllers EXCEPT
                       ![_thread.ctl].lighting_effect = nx.effect]
                /\ _thread' = IF nx.raised # NoError
                              THEN Raise(nx.raised)
                              ELSE [_thread EXCEPT
                                      !.i = @ + 1,
                                      !.data = @ \o BrightnessProcessor(
                                                  ctl.brightness_level, nx.rgb)]
       ELSE /\ _thread' = [_thread EXCEPT
                  !.pc = "set_lighting",
                  !.next_poll_msec = controllers[_thread.ctl].update_msec]
            /\ UNCHANGED controllers
    /\ UNCHANGED <<_controller, _devices, _continue, caller, ghost>>

\* dev.set_lighting(data)
main_loop_set_lighting ==
    /\ _thread.pc = "set_lighting"
    /\ ghost' = [ghost EXCEPT
          !.sunk = TRUE]
    /\ _thread' = [_thread EXCEPT !.pc = "for", !.ctl = None, !.num_leds = 0,
                                  !.i = 0, !.data = <<>>]
    /\ UNCHANGED <<controllers, _controller, _devices, _continue, caller>>

\* time.sleep(next_poll_msec / 1000)
main_loop_sleep ==
    /\ _thread.pc = "sleep"
    /\ _thread' = [_thread EXCEPT !.pc = "while"]
    /\ ghost' = [ghost EXCEPT !.round_ctl = None, !.round_calls = 0]
    /\ UNCHANGED <<controllers, _controller, _devices, _continue, caller>>

Worker ==
    \/ main_loop_while
    \/ main_loop_begin_all
    \/ main_loop_for
    \/ controller_main
    \/ main_loop_set_lighting
    \/ main_loop_sleep

Caller ==
    \/ \E n \in LedCounts : attach_device(n)
    \/ \E c \in SetControllerArgs : set_controller(c)
    \/ \E b \in BrightnessArgs : set_brightness(b)
    \/ \E sec \in UpdateMsecArgs : set_light_update_msec(sec)
    \/ start
    \/ stop
    \/ join

Next == Caller \/ Worker

Spec == Init /\ [][Next]_vars

\* The scheduler runs a runnable worker thread, and a caller whose join can
\* return does return.
FairSpec == Spec /\ WF_vars(Worker) /\ WF_vars(join)

(***************************************************************************)
(* SpecEffect: the methods of one controller and of its effect, called one *)
(* at a time and in any order by a single thread (no worker runs).         *)
(***************************************************************************)
\* the controller the calls go to
Active == controllers[_controller]

\* num_leds of the devices main() is called for
FrameLedCounts == {0, 2, 3}

EffectFactoryCalls ==
    FactoryCalls \cup
    {<<"static", <<29, 58, 100>>>>,
     <<"alternating", <<<<0, 255, 0>>, <<10, 20, 30>>>>>>}

EffectPools ==
    {[c \in CtrlIds |-> lighting_controller_factory(f[1], f[2])] :
     f \in EffectFactoryCalls}

InitEffect ==
    /\ controllers \in EffectPools
    /\ _controller = 1
    /\ _devices = <<>>
    /\ _continue = FALSE
    /\ _thread = ThreadInit
    /\ caller = [pc |-> "ready", calls |-> 0, raised |-> NoError]
    /\ ghost = GhostInit

effect_begin_all ==
    /\ ghost.begin_all_calls < MaxBeginAll
    /\ \E reading \in SensorReadings(Active.lighting_effect) :
          LET r == begin_all(Active.lighting_effect, reading)
          IN  /\ controllers' = [controllers EXCEPT
                     ![_controller].lighting_effect = r.effect]
              /\ caller' = [caller EXCEPT !.raised = r.raised]
    /\ ghost' = [ghost EXCEPT !.begin_all_calls = @ + 1,
                              !.op = "begin_all", !.ret = <<>>]
    /\ UNCHANGED <<_controller, _devices, _continue, _thread>>

effect_begin_dev ==
    /\ controllers' = [controllers EXCEPT
           ![_controller].lighting_effect = begin_dev(@)]
    /\ caller' = [caller EXCEPT !.raised = NoError]
    /\ ghost' = [ghost EXCEPT !.op = "begin_dev", !.ret = <<>>]
    /\ UNCHANGED <<_controller, _devices, _continue, _thread>>

effect_next ==
    /\ ghost.next_calls < MaxNextCalls
    /\ LET nx == next(Active.lighting_effect)
       IN  /\ controllers' = [controllers EXCEPT
                  ![_controller].lighting_effect = nx.effect]
           /\ caller' = [caller EXCEPT !.raised = nx.raised]
           /\ ghost' = [ghost EXCEPT
                  !.next_calls = @ + 1, !.op = "next",
                  !.ret = IF nx.raised = NoError THEN nx.rgb ELSE <<>>]
    /\ UNCHANGED <<_controller, _devices, _continue, _thread>>

controller_main_call(num_leds) ==
    /\ ghost.next_calls + num_leds <= MaxNextCalls
    /\ LET m == ControllerMain(Active, num_leds)
       IN  /\ controllers' = [controllers EXCEPT ![_controller] = m.ctl]
           /\ caller' = [caller EXCEPT !.raised = m.raised]
           /\ ghost' = [ghost EXCEPT
                  !.next_calls = @ + num_leds, !.op = "main",
                  !.ret = IF m.raised = NoError
                          THEN <<[num_leds |-> num_leds,
                                  brightness_level |-> Active.brightness_level,
                                  data |-> m.data,
                                  update_msec |-> m.update_msec]>>
                          ELSE <<>>]
    /\ UNCHANGED <<_controller, _devices, _continue, _thread>>

NextEffect ==
    \/ effect_begin_all
    \/ effect_begin_dev
    \/ effect_next
    \/ \E n \in FrameLedCounts : controller_main_call(n)
    \/ \E b \in BrightnessArgs : set_brightness(b)

SpecEffect == InitEffect /\ [][NextEffect]_vars

(***************************************************************************)
(* SpecScale: one main() call for a one-led device, for every channel      *)
(* value an effect can return and every brightness level a controller can  *)
(* hold.                                                                   *)
(***************************************************************************)
Channels == 0..255
BrightnessLevels == 0..MaxBrightness

InitScale ==
    /\ \E ch \in Channels, level \in BrightnessLevels :
          controllers =
             [c \in CtrlIds |->
                [LightingController(StaticLightingEffect(ch, ch, ch))
                    EXCEPT !.brightness_level = level]]
    /\ _controller = 1
    /\ _devices = <<>>
    /\ _continue = FALSE
    /\ _thread = ThreadInit
    /\ caller = [pc |-> "ready", calls |-> 0, raised |-> NoError]
    /\ ghost = GhostInit

NextScale == ghost.op = "" /\ controller_main_call(1)

SpecScale == InitScale /\ [][NextScale]_vars

(***************************************************************************)
(* SpecSpectrum: the two spectrum effects driven call by call, far enough  *)
(* for a frame of 12 and of 13 leds and for the rotation to wrap.          *)
(***************************************************************************)
\* num_leds of the devices main() is called for
SpectrumLedCounts == {1, 11, 12, 13}

SpectrumPools ==
    {[c \in CtrlIds |-> lighting_controller_factory(type, <<>>)] :
     type \in {"rgb_spectrum", "spinning_rgb_spectrum"}}

InitSpectrum ==
    /\ controllers \in SpectrumPools
    /\ _controller = 1
    /\ _devices = <<>>
    /\ _continue = FALSE
    /\ _thread = ThreadInit
    /\ caller = [pc |-> "ready", calls |-> 0, raised |-> NoError]
    /\ ghost = GhostInit

spectrum_next ==
    /\ ghost.next_calls < MaxSpectrumNext
    /\ LET nx == next(Active.lighting_effect)
       IN  /\ controllers' = [controllers EXCEPT
                  ![_controller].lighting_effect = nx.effect]
           /\ caller' = [caller EXCEPT !.raised = nx.raised]
           /\ ghost' = [ghost EXCEPT
                  !.next_calls = @ + 1, !.op = "next",
                  !.ret = IF nx.raised = NoError THEN nx.rgb ELSE <<>>]
    /\ UNCHANGED <<_controller, _devices, _continue, _thread>>

\* main() for a device of num_leds leds; ret keeps num_leds and the frame
\* built up to the return or to the exception
spectrum_main(num_leds) ==
    /\ ghost.next_calls + num_leds <= MaxSpectrumNext
    /\ LET m == ControllerMain(Active, num_leds)
       IN  /\ controllers' = [controllers EXCEPT ![_controller] = m.ctl]
           /\ caller' = [caller EXCEPT !.raised = m.raised]
           /\ ghost' = [ghost EXCEPT
                  !.next_calls = @ + m.ctl.lighting_effect.num_iters,
                  !.op = "main",
                  !.ret = <<[num_leds |-> num_leds,
                             brightness_level |-> Active.brightness_level,
                             data |-> m.data,
                             update_msec |-> m.update_msec]>>]
    /\ UNCHANGED <<_controller, _devices, _continue, _thread>>

NextSpectrum ==
    \/ effect_begin_all
    \/ effect_begin_dev
    \/ spectrum_next
    \/ \E n \in SpectrumLedCounts : spectrum_main(n)

SpecSpectrum == InitSpectrum /\ [][NextSpectrum]_vars

(***************************************************************************)
(* Properties.                                                             *)
(***************************************************************************)

\* C1: once start() has been called and a following stop() has returned, no
\* step of the worker calls a device's set_lighting again, whatever the
\* interleaving of the two threads (and whatever the caller calls next).
C1_NoSinkAfterStop ==
    [][ghost.stop_returned => ~main_loop_set_lighting]_vars

\* C1 witness: the worker has handed frames to a device, stop() has returned
\* and the caller has called start() again.
C1_Witness ==
    /\ ghost.stop_returned
    /\ ghost.sunk
    /\ _continue
    /\ caller.raised = "RuntimeError"

\* C2: after stop() has cleared the flag the worker calls begin_all at most
\* once more; and when start() was called, a stop() that waits in join leads
\* to the worker having exited and stop() having returned.
C2_StopEndsWorker ==
    /\ [](ghost.rounds_after_clear <= 1)
    /\ (caller.pc = "join" /\ ghost.started)
          ~> (_thread.pc = "stopped" /\ caller.pc = "ready" /\ ghost.stop_returned)

\* C2 witness: the worker began one more round after the flag was cleared,
\* handed a frame to a device in it, and stop() has returned.
C2_Witness ==
    /\ ghost.rounds_after_clear = 1
    /\ ghost.sunk
    /\ ghost.stop_returned
    /\ _thread.raised = NoError

\* C3: every channel value handed to a device's set_lighting is in 0..255.
C3_SinkChannelsAreBytes ==
    _thread.pc = "set_lighting" =>
        \A k \in 1..Len(_thread.data) : _thread.data[k] \in 0..255

\* x clamped to lo..hi
ClampTo(lo, hi, x) == IF x < lo THEN lo ELSE IF x > hi THEN hi ELSE x

\* C4 (as claimed): after any sequence of set_brightness, set_controller and
\* set_light_update_msec calls the active controller's brightness level is
\* the last set_brightness argument clamped to 0..300.
C4_BrightnessIsLastArgument ==
    (_controller # None /\ ghost.brightness_call # <<>>) =>
        Active.brightness_level = ClampTo(0, 300, ghost.brightness_call[2])

\* C4 (amended): every controller's brightness level is in 0..300; a
\* set_brightness call that finds a controller raises nothing and stores its
\* argument clamped to 0..300 in the controller active at the call, so that
\* controller's level is the last argument clamped, whichever controller
\* is active later.
C4_BrightnessClamped ==
    /\ [](/\ \A c \in CtrlIds : controllers[c].brightness_level \in 0..300
          /\ ghost.brightness_call # <<>> =>
                controllers[ghost.brightness_call[1]].brightness_level
                    = ClampTo(0, 300, ghost.brightness_call[2]))
    /\ [][\A b \in BrightnessArgs :
            (set_brightness(b) /\ _controller # None) =>
                /\ caller'.raised = NoError
                /\ controllers'[_controller].brightness_level
                       = ClampTo(0, 300, b)]_vars

\* C4 witness: set_brightness(1000) stored 300 in controller 1, and after
\* set_controller the active controller 2 still has its own level 100.
C4_Witness ==
    /\ ghost.brightness_call = <<1, 1000>>
    /\ controllers[1].brightness_level = 300
    /\ _controller = 2
    /\ controllers[2].brightness_level = 100

\* C5: the refresh interval of every controller starts at 100 and is always
\* > 0; set_light_update_msec(sec) with sec <= 0 changes nothing of the
\* manager, its controllers or the worker and raises nothing, and with
\* sec > 0 stores exactly sec in the active controller and changes nothing
\* else.
C5_UpdateMsecPositive ==
    /\ \A c \in CtrlIds : controllers[c].update_msec = 100
    /\ [](\A c \in CtrlIds : controllers[c].update_msec > 0)
    /\ [][\A sec \in UpdateMsecArgs :
            set_light_update_msec(sec) =>
                IF sec <= 0
                THEN /\ UNCHANGED <<controllers, _controller, _devices,
                                    _continue, _thread, ghost>>
                     /\ caller'.raised = NoError
                ELSE _controller # None =>
                     /\ controllers' = [controllers EXCEPT
                            ![_controller].update_msec = sec]
                     /\ UNCHANGED <<_controller, _devices, _continue,
                                    _thread, ghost>>]_vars

\* C5 witness: set_light_update_msec(50) was stored and the worker has read
\* the interval back from main(), after two setter calls.
C5_Witness ==
    /\ _controller # None
    /\ Active.update_msec = 50
    /\ _thread.next_poll_msec = 50
    /\ caller.calls = 2

\* C6: every channel of the frame main() returns is
\* floor(channel * brightness / 100) of the channel the effect returned (so 0
\* for brightness 0 and the channel itself for brightness 100).
C6_ScalingIsFloor ==
    (ghost.op = "main" /\ ghost.ret # <<>>) =>
        LET e == Active.lighting_effect
            f == ghost.ret[1]
        IN  f.data = <<(e.g * f.brightness_level) \div 100,
                       (e.r * f.brightness_level) \div 100,
                       (e.b * f.brightness_level) \div 100>>

\* C7: a Static(R,G,B) effect returns (G,R,B) from every next() and is never
\* changed; every frame main() builds from it for a device of n leds is n
\* repetitions of that triple scaled by the brightness, and for
\* Static(255,0,0), brightness 50 and 2 leds it is [0,127,0, 0,127,0].
C7_StaticFrames ==
    /\ [](Active.lighting_effect.type = "static" =>
            LET e == Active.lighting_effect
            IN  /\ ghost.op = "next" => ghost.ret = <<e.g, e.r, e.b>>
                /\ ghost.op = "main" =>
                     /\ ghost.ret # <<>>
                     /\ LET f == ghost.ret[1]
                            scaled == BrightnessProcessor(f.brightness_level,
                                                          <<e.g, e.r, e.b>>)
                        IN  /\ Len(f.data) = 3 * f.num_leds
                            /\ \A k \in 1..Len(f.data) :
                                  f.data[k] = scaled[((k - 1) % 3) + 1]
                            /\ (e = StaticLightingEffect(255, 0, 0)
                                  /\ f.brightness_level = 50 /\ f.num_leds = 2)
                               => f.data = <<0, 127, 0, 0, 127, 0>>)
    /\ [][Active.lighting_effect.type = "static" =>
            Active'.lighting_effect = Active.lighting_effect]_vars

\* C7 witness: the second frame built from Static(255,0,0) at brightness 50
\* for 2 leds.
C7_Witness ==
    /\ Active.lighting_effect = StaticLightingEffect(255, 0, 0)
    /\ ghost.op = "main"
    /\ ghost.next_calls = 4
    /\ ghost.ret # <<>>
    /\ ghost.ret[1].data = <<0, 127, 0, 0, 127, 0>>

\* C8: the k-th next() of a fresh Alternating effect returns the odd triple
\* (as G,R,B) for odd k and the even triple for even k, whatever begin_dev
\* and begin_all calls come in between; only next() changes the parity flag.
C8_Alternates ==
    /\ [](Active.lighting_effect.type = "alternating" =>
            LET e == Active.lighting_effect
                k == ghost.next_calls
            IN  /\ e.odd <=> (k % 2 = 0)
                /\ ghost.op = "next" =>
                     ghost.ret = IF k % 2 = 1
                                 THEN <<e.odd_g, e.odd_r, e.odd_b>>
                                 ELSE <<e.even_g, e.even_r, e.even_b>>)
    /\ [][(Active.lighting_effect.type = "alternating"
             /\ Active'.lighting_effect.odd # Active.lighting_effect.odd)
          => ghost'.next_calls # ghost.next_calls]_vars

\* C8 witness: the fourth next() has returned the even triple, after two
\* begin_all calls.
C8_Witness ==
    /\ Active.lighting_effect.type = "alternating"
    /\ ghost.op = "next"
    /\ ghost.next_calls = 4
    /\ ghost.begin_all_calls = 2
    /\ ghost.ret = <<Active.lighting_effect.even_g, Active.lighting_effect.even_r,
                     Active.lighting_effect.even_b>>

\* C9: after the n-th begin_all of a fresh spinning spectrum the rotation is
\* ((n - 1) mod 12) + 1: 1,2,...,12,1,2,...; it is 0 only before the first.
C9_RotationCycle ==
    Active.lighting_effect.type = "spinning_rgb_spectrum" =>
        Active.lighting_effect.rotation =
            IF ghost.begin_all_calls = 0 THEN 0
            ELSE ((ghost.begin_all_calls - 1) % 12) + 1

\* C9 witness: the 13th begin_all, the one after the rotation reached 12.
C9_Witness ==
    /\ Active.lighting_effect.type = "spinning_rgb_spectrum"
    /\ ghost.begin_all_calls = 13
    /\ Active.lighting_effect.rotation = 1

\* C10 (as claimed): the rotation of a spinning spectrum is in 0..11.
C10_RotationBelow12 ==
    Active.lighting_effect.type = "spinning_rgb_spectrum" =>
        Active.lighting_effect.rotation \in 0..11

\* C10 (amended): the rotation of a spinning spectrum is in 0..12, after
\* any number of begin_all, begin_dev and next calls.
C10_RotationAtMost12 ==
    Active.lighting_effect.type = "spinning_rgb_spectrum" =>
        Active.lighting_effect.rotation \in 0..12

\* C10 witness: the rotation is 12 and next() has been called with it.
C10_Witness ==
    /\ Active.lighting_effect.type = "spinning_rgb_spectrum"
    /\ Active.lighting_effect.rotation = 12
    /\ ghost.op = "next"

\* C11 (as claimed): while an RGBSpectrum effect builds the frame of a device
\* of at most 12 leds, the k-th next() after begin_dev raises nothing and
\* returns entry (30 * k) mod 360 of the table; main() for such a device
\* returns the whole frame of 3 * num_leds channels.
C11_SpectrumUpTo12Leds ==
    Active.lighting_effect.type = "rgb_spectrum" =>
        LET k == Active.lighting_effect.num_iters
        IN  /\ (ghost.op = "next" /\ k <= 12) =>
                  /\ caller.raised = NoError
                  /\ ghost.ret = CompassToRgbMap((30 * k) % TableSize)
            /\ (ghost.op = "main" /\ ghost.ret[1].num_leds <= 12) =>
                  /\ caller.raised = NoError
                  /\ Len(ghost.ret[1].data) = 3 * ghost.ret[1].num_leds

\* C12 (as claimed): after a begin_all that read the temperature cur, the
\* angle of a Temperature effect with thresholds cold < target < hot is 240
\* for cur <= cold, 120 for cur = target, 0 for cur > hot, the linear
\* interpolation from 240 at cold to 120 at target in between (180 midway)
\* and the linear interpolation from 120 at target to 0 at hot above target.
C12_TemperatureInterpolation ==
    (Active.lighting_effect.type = "temperature" /\ ghost.op = "begin_all"
        /\ caller.raised = NoError) =>
        LET e   == Active.lighting_effect
            cur == e.cur_temp
        IN  /\ cur <= e.cold => e.angle = 240
            /\ cur = e.target => e.angle = 120
            /\ cur > e.hot => e.angle = 0
            /\ (e.cold < cur /\ cur < e.target) =>
                  e.angle * (e.target - e.cold) =
                      240 * (e.target - e.cold) - 120 * (cur - e.cold)
            /\ (e.target < cur /\ cur <= e.hot) =>
                  e.angle * (e.hot - e.target) = 120 * (e.hot - cur)

\* C13: set_controller(c) makes c the active controller when c is a
\* controller and leaves the active controller as it was for any other
\* object (None included); in both cases it raises nothing and changes no
\* controller's brightness or interval, not the device list, not the
\* running flag and not the worker.
C13_SetControllerValidates ==
    /\ [][\A c \in SetControllerArgs :
            set_controller(c) =>
                /\ _controller' = (IF c \in CtrlIds THEN c ELSE _controller)
                /\ caller'.raised = NoError
                /\ UNCHANGED <<controllers, _devices, _continue, _thread>>]_vars
    /\ [](ghost.controller_call # <<>> =>
            _controller = IF ghost.controller_call[1] = None
                          THEN ghost.controller_call[2]
                          ELSE ghost.controller_call[1])

\* C13 witness: set_controller(None) was called while controller 2 was
\* active and the worker was running, and controller 2 is still active.
C13_Witness ==
    /\ ghost.controller_call = <<None, 2>>
    /\ _controller = 2
    /\ _continue
    /\ _thread.pc = "main"

\* C14 (as claimed): a begin_all of a Temperature effect whose sensor gives
\* no reading does not end the worker: the worker thread never finishes with
\* the exception of that call.
C14_MissingSensorKeepsLoop ==
    ~(_thread.pc = "stopped" /\ _thread.raised = "TypeError")

\* C15 (as claimed): when the worker has ended with an unhandled exception
\* the manager's state shows it: the running flag is not left true while no
\* worker runs.
C15_AbortedLoopClearsFlag ==
    (_thread.pc = "stopped" /\ _thread.raised # NoError) => ~_continue

\* C16: once start() has been called and a following stop() has returned,
\* the worker thread is finished for good: a further start() raises and
\* starts nothing, and no step of the worker (no begin_all, no main, no
\* set_lighting) is taken, whatever start and stop calls follow.
C16_NotRestartable ==
    /\ [](ghost.stop_returned => _thread.pc = "stopped")
    /\ [][ghost.stop_returned =>
            /\ ~Worker
            /\ start => (caller'.raised = "RuntimeError" /\ _thread' = _thread)]_vars

\* C16 witness: the worker ran its rounds without an exception, stop()
\* returned, and start() was called again and raised.
C16_Witness ==
    /\ ghost.stop_returned
    /\ ghost.sunk
    /\ _thread.pc = "stopped"
    /\ _thread.raised = NoError
    /\ _continue
    /\ caller.raised = "RuntimeError"
    /\ caller.calls = MaxCalls

\* the steps of the worker from one position of _main_loop to another
RoundOrder ==
    {<<"initial", "while">>, <<"while", "begin_all">>, <<"begin_all", "for">>,
     <<"for", "main">>, <<"main", "set_lighting">>, <<"set_lighting", "for">>,
     <<"for", "sleep">>, <<"sleep", "while">>}

\* C17: the worker goes through a round in the order begin_all, then for
\* each device in attachment order begin_dev, num_leds calls of next and
\* set_lighting with the frame of 3 * num_leds channels, then one sleep; it
\* leaves that order only by ending (the flag cleared, or an exception).
\* When no setter was called since the round began, the sleep comes after
\* every attached device has had its frame.
C17_RoundProtocol ==
    /\ [](/\ _thread.pc \in {"main", "set_lighting"} =>
               /\ _thread.dev_idx \in 1..Len(_devices)
               /\ _thread.num_leds = _devices[_thread.dev_idx]
               /\ _thread.i <= _thread.num_leds
               /\ Len(_thread.data) = 3 * _thread.i
          /\ _thread.pc = "set_lighting" =>
               /\ _thread.i = _thread.num_leds
               /\ Len(_thread.data) = 3 * _thread.num_leds
          /\ (_thread.pc = "sleep" /\ ghost.round_calls = caller.calls) =>
               _thread.dev_idx = Len(_devices))
    /\ [][/\ _thread'.pc # _thread.pc =>
               \/ <<_thread.pc, _thread'.pc>> \in RoundOrder
               \/ (_thread'.pc = "stopped" /\ _thread.pc \in {"while", "begin_all", "for", "main"})
          /\ (_thread.pc = "begin_all" /\ _thread'.pc = "for") =>
               _thread'.dev_idx = 0
          /\ (_thread.pc = "for" /\ _thread'.pc = "main") =>
               /\ _thread'.dev_idx = _thread.dev_idx + 1
               /\ _thread'.i = 0
               /\ _thread'.data = <<>>
          /\ (_thread.pc = "main" /\ _thread'.pc = "main"
                /\ _thread' # _thread) =>
               /\ _thread'.i = _thread.i + 1
               /\ _thread'.dev_idx = _thread.dev_idx
          /\ (_thread.pc = "set_lighting" /\ _thread'.pc = "for") =>
               _thread'.dev_idx = _thread.dev_idx]_vars

\* C17 witness: the worker is at the sleep of a round in which two devices
\* had their frames, with no setter called during the round.
C17_Witness ==
    /\ _thread.pc = "sleep"
    /\ _devices = <<2, 2>>
    /\ _thread.dev_idx = 2
    /\ ghost.sunk
    /\ ghost.round_calls = caller.calls

\* C18 (as claimed): in every round, for any number of attached devices,
\* the worker sleeps for the active controller's refresh interval.
C18_SleepIsControllerInterval ==
    _thread.pc = "sleep" =>
        _thread.next_poll_msec = controllers[_controller].update_msec

\* C19 (as claimed): whatever set_controller calls interleave with the
\* worker, the controller whose main() builds a frame in a round is the one
\* whose effect's begin_all started that round.
C19_RoundUsesOneController ==
    _thread.pc = "main" => _thread.ctl = ghost.round_ctl

\* the effect e after j more calls of begin_all
RECURSIVE AfterRounds(_, _)
AfterRounds(e, j) ==
    IF j = 0 THEN e ELSE AfterRounds(begin_all(e, <<>>).effect, j - 1)

\* the triples the next n calls of next() return, from the effect e
RECURSIVE NextTriples(_, _)
NextTriples(e, n) ==
    IF n = 0 THEN <<>>
    ELSE <<next(e).rgb>> \o NextTriples(next(e).effect, n - 1)

\* the colours of the frame for a device of n leds, from the effect e
FrameOf(e, n) == NextTriples(begin_dev(e), n)

\* led counts the frames of successive rounds are compared for
ComparedLedCounts == {1, 2, 12}

=============================================================================
